---- MODULE Spec2Model ----
(***************************************************************************)
(* A model of train_gen.py: the segment tagger of                          *)
(* GPT2Summ.prepare_inputs_for_generation and the training harness of      *)
(* main (train_step, dev_step, the evaluation rounds and the best-model    *)
(* checkpoint).                                                            *)
(***************************************************************************)
EXTENDS Integers, Sequences, FiniteSets, TLC

VARIABLES
    \* ---- GPT2Summ.prepare_inputs_for_generation and the generation loop
    input_ids,        \* the batch handed to prepare_inputs_for_generation
    past,             \* kwargs["past"] is present and non-empty
    segment,          \* self.segment
    token_type_ids,   \* the local token_type_ids when the method returns
    inputs,           \* the returned dict
    gpc,              \* "call": about to call the method, "returned": after
    \* ---- main: args and data
    num_steps,        \* args.num_steps
    valid_every,      \* args.valid_every
    accum_steps,      \* args.accum_steps
    test_seen_loader,    \* number of batches test_seen_loader yields
    test_unseen_loader,  \* number of batches test_unseen_loader yields
    \* ---- main: the loop and its closures' state
    pc,               \* position in main / train_step / dev_step
    i,                \* the for-loop index (global_step is i + 1)
    training,         \* gen_model.training (train() / eval())
    micro,            \* micro-batches done in the running train_step
    grads,            \* backward passes accumulated in the .grad buffers
    grad_norm,        \* train_step's local grad_norm
    params,           \* version of the parameters: optimizer steps applied
    warnings,         \* 'WARNING: Exploding Gradients' lines printed
    \* ---- dev_step
    split,            \* dev_step's argument split
    global_step,      \* dev_step's argument global_step
    n_token,          \* dev_step's n_token
    test_loss,        \* dev_step's test_loss
    count,            \* dev_step's count (examples decoded)
    batch_pos,        \* batches of test_loader consumed
    dev_result,       \* dev_step's return value
    decoded_files,    \* the '{split}-decoded-iter-{step}.txt' files written
    error,            \* the exception that ended the program, if any
    \* ---- the evaluation round
    test_seen_results,
    test_unseen_results,
    best_loss,
    schedule,         \* gen_schedule (ReduceLROnPlateau): best, lr decays
    checkpoint,       \* the '-gen-best' file: the saved parameters' version
    results_file,     \* the 'results' file
    \* ---- history (not program state)
    drawn,            \* next(train_loader) calls so far
    opt_grads,        \* per optimizer step: backward passes it consumed
    seen_hist,        \* per round: step, parameters and test_seen loss
    rounds,           \* evaluation rounds completed
    sched_hist,       \* metrics handed to gen_schedule.step, in order
    saves             \* torch.save calls so far

genVars == <<input_ids, past, segment, token_type_ids, inputs, gpc>>

argVars == <<num_steps, valid_every, accum_steps, test_seen_loader, test_unseen_loader>>

trainVars == <<i, training, micro, grads, grad_norm, params, warnings, drawn, opt_grads>>

devVars == <<split, global_step, n_token, test_loss, count, batch_pos, dev_result,
             decoded_files, error>>

roundVars == <<test_seen_results, test_unseen_results, best_loss, schedule,
               checkpoint, results_file, seen_hist, rounds, sched_hist, saves>>

mainVars == <<argVars, pc, trainVars, devVars, roundVars>>

vars == <<genVars, mainVars>>

(***************************************************************************)
(* Bounds of the model.                                                    *)
(***************************************************************************)
MaxLen == 2
BatchSizes == 1..2
MaxSteps == 2
MaxValidEvery == 2
MaxAccum == 2
MaxEvalBatches == 1

(***************************************************************************)
(* Token ids. 0 stands for every ordinary (non-special) token.             *)
(***************************************************************************)
user_id == <<1, 2>>
know_id == 3
Vocab == 0..3

Range(s) == {s[k] : k \in DOMAIN s}

\* [self.know_id] + self.user_id
SpecialIds == Range(<<know_id>> \o user_id)

\* The documented example [K, t1, U1, t2, U2, t3].
ExampleIds == <<know_id, 0, user_id[1], 0, user_id[2], 0>>

RECURSIVE SeqsOfLen(_, _)
SeqsOfLen(S, n) ==
    IF n = 0 THEN {<<>>}
    ELSE {Append(s, x) : s \in SeqsOfLen(S, n - 1), x \in S}

\* Batches: b rows of one common length n (a 2-D tensor).
Batches(b, n) == SeqsOfLen(SeqsOfLen(Vocab, n), b)

(***************************************************************************)
(* The inner loop of prepare_inputs_for_generation, from position j on,    *)
(* with the running last_special_token.                                    *)
(***************************************************************************)
\* A variant that tags a special token's own position with the label before it.
RECURSIVE TypeIdsFromExclusive(_, _, _)
TypeIdsFromExclusive(ids, j, last_special_token) ==
    IF j > Len(ids) THEN <<>>
    ELSE <<last_special_token>> \o
         TypeIdsFromExclusive(ids, j + 1,
             IF ids[j] \in SpecialIds THEN ids[j] ELSE last_special_token)

RECURSIVE TypeIdsFrom(_, _, _)
TypeIdsFrom(ids, j, last_special_token) ==
    IF j > Len(ids) THEN <<>>
    ELSE IF ids[j] \in SpecialIds
         THEN <<ids[j]>> \o TypeIdsFrom(ids, j + 1, ids[j])
         ELSE <<last_special_token>> \o TypeIdsFrom(ids, j + 1, last_special_token)

\* A variant whose last_special_token starts as the pad token 0.
TypeIdsFromPad(ids) == TypeIdsFrom(ids, 1, 0)

\* One row: last_special_token starts as self.know_id.
TypeIds(ids) == TypeIdsFrom(ids, 1, know_id)

\* The outer loop: one type_ids row per input row.
BuildTokenTypeIds(batch) == [r \in DOMAIN batch |-> TypeIds(batch[r])]

\* x[:, -1].unsqueeze(-1): the last column only.
LastColumn(batch) == [r \in DOMAIN batch |-> <<batch[r][Len(batch[r])]>>]

NoInputs == [returned |-> FALSE]

\* The returned dict: token_type_ids is a key only when self.segment.
MakeInputs(ids, types, seg) ==
    IF seg THEN [input_ids |-> ids, token_type_ids |-> types]
    ELSE [input_ids |-> ids]

(***************************************************************************)
(* Losses are exact rationals <<numerator, denominator>>, denominator > 0: *)
(* dev_step's MeanLoss is test_loss / n_token, kept in lowest terms so     *)
(* that equal losses are equal values.                                     *)
(***************************************************************************)
Less(a, b) == a[1] * b[2] < b[1] * a[2]

RECURSIVE GCD(_, _)
GCD(a, b) == IF b = 0 THEN a ELSE GCD(b, a % b)

\* MeanLoss = test_loss / n_token, for n_token > 0
MeanLoss(sum, n) == <<sum \div GCD(sum, n), n \div GCD(sum, n)>>

\* best_loss = 99999.9
InitialBestLoss == <<999999, 10>>

\* args.eval_batch_size (default): the examples of one evaluation batch.
eval_batch_size == 4

\* loss.sum().item() of one evaluation batch: per-example losses summed.
LossSums == {0, 4, 400000}

\* grad_norm values: below, at and above the 1e2 of train_step.
GradNorms == {1, 100, 101}

\* if grad_norm >= 1e2
Exploding(norm) == norm >= 100

None == [none |-> TRUE]

(***************************************************************************)
(* gen_schedule = ReduceLROnPlateau(gen_optimizer, 'min', factor=decay,    *)
(* min_lr=0, patience=0): a metric is better when below best * (1 - 1e-4); *)
(* with patience 0 every step that is not better decays the learning rate. *)
(* The learning rate is lr * decay^decays.                                 *)
(***************************************************************************)
InitialSchedule == [best |-> None, decays |-> 0]

IsBetter(a, best) ==
    \/ best = None
    \/ a[1] * best[2] * 10000 < best[1] * 9999 * a[2]

ScheduleStep(sch, metric) ==
    IF IsBetter(metric, sch.best)
    THEN [best |-> metric, decays |-> sch.decays]
    ELSE [best |-> sch.best, decays |-> sch.decays + 1]

\* A variant that also accepts a tie.
ImprovedOrTie(loss, best) == ~Less(best, loss)

\* if test_seen_results['loss'] < best_loss
Improved(loss, best) == Less(loss, best)

\* The test loader dev_step picks for a split.
TestLoader(s) == IF s = "test_seen" THEN test_seen_loader ELSE test_unseen_loader

ValidSplits == {"test_seen", "test_unseen"}

\* The state of main just before its for loop, for given args and data.
MainStart(ns, ve, ac, sl, ul) ==
    /\ num_steps = ns
    /\ valid_every = ve
    /\ accum_steps = ac
    /\ test_seen_loader = sl
    /\ test_unseen_loader = ul
    /\ pc = "loop"
    /\ i = 0
    /\ training = FALSE
    /\ micro = 0
    /\ grads = 0
    /\ grad_norm = 0
    /\ params = 0
    /\ warnings = 0
    /\ split = "none"
    /\ global_step = 0
    /\ n_token = 0
    /\ test_loss = 0
    /\ count = 0
    /\ batch_pos = 0
    /\ dev_result = None
    /\ decoded_files = {}
    /\ error = "none"
    /\ test_seen_results = None
    /\ test_unseen_results = None
    /\ best_loss = InitialBestLoss
    /\ schedule = InitialSchedule
    /\ checkpoint = None
    /\ results_file = None
    /\ drawn = 0
    /\ opt_grads = <<>>
    /\ seen_hist = <<>>
    /\ rounds = 0
    /\ sched_hist = <<>>
    /\ saves = 0

MainInit ==
    \E ve \in 1..MaxValidEvery, ac \in 1..MaxAccum,
       sl \in 0..MaxEvalBatches, ul \in 0..MaxEvalBatches :
        MainStart(MaxSteps, ve, ac, sl, ul)

(***************************************************************************)
(* train_step(global_step)                                                 *)
(***************************************************************************)
\* for i in range(args.num_steps): train_step(i + 1) -- up to gen_model.train()
TrainStepEnter ==
    /\ pc = "loop"
    /\ i < num_steps
    /\ training' = TRUE
    /\ micro' = 0
    /\ pc' = "accum"
    /\ UNCHANGED <<argVars, i, grads, grad_norm, params, warnings, drawn, opt_grads,
                   devVars, roundVars, genVars>>

\* The for loop is exhausted: main returns.
LoopExit ==
    /\ pc = "loop"
    /\ i >= num_steps
    /\ pc' = "done"
    /\ UNCHANGED <<argVars, trainVars, devVars, roundVars, genVars>>

\* One pass of 'for _ in range(args.accum_steps)': next(train_loader),
\* forward, gen_loss.backward().
MicroBatch ==
    /\ pc = "accum"
    /\ micro < accum_steps
    /\ drawn' = drawn + 1
    /\ grads' = grads + 1
    /\ micro' = micro + 1
    /\ UNCHANGED <<argVars, pc, i, training, grad_norm, params, warnings, opt_grads,
                   devVars, roundVars, genVars>>

\* A variant that aborts on an exploding norm instead of warning.
ClipGradNormAbort ==
    /\ pc = "accum"
    /\ micro >= accum_steps
    /\ \E norm \in GradNorms :
          /\ grad_norm' = norm
          /\ warnings' = IF Exploding(norm) THEN warnings + 1 ELSE warnings
          /\ pc' = IF Exploding(norm) THEN "crashed" ELSE "opt_step"
    /\ UNCHANGED <<argVars, i, training, micro, grads, params, drawn, opt_grads,
                   devVars, roundVars, genVars>>

\* After the loop: clip_grad_norm_ and the warning.
ClipGradNorm ==
    /\ pc = "accum"
    /\ micro >= accum_steps
    /\ \E norm \in GradNorms :
          /\ grad_norm' = norm
          /\ warnings' = IF Exploding(norm) THEN warnings + 1 ELSE warnings
    /\ pc' = "opt_step"
    /\ UNCHANGED <<argVars, i, training, micro, grads, params, drawn, opt_grads,
                   devVars, roundVars, genVars>>

\* gen_optimizer.step()
OptimizerStep ==
    /\ pc = "opt_step"
    /\ params' = params + 1
    /\ opt_grads' = Append(opt_grads, grads)
    /\ pc' = "zero_grad"
    /\ UNCHANGED <<argVars, i, training, micro, grads, grad_norm, warnings, drawn,
                   devVars, roundVars, genVars>>

\* A variant of the end of train_step that leaves the gradients in place.
ZeroGradMissing ==
    /\ pc = "zero_grad"
    /\ grad_norm' = 0
    /\ pc' = "valid_check"
    /\ UNCHANGED <<argVars, i, training, micro, grads, params, warnings, drawn,
                   opt_grads, devVars, roundVars, genVars>>

\* gen_model.zero_grad(), and train_step returns.
ZeroGrad ==
    /\ pc = "zero_grad"
    /\ grads' = 0
    /\ grad_norm' = 0
    /\ pc' = "valid_check"
    /\ UNCHANGED <<argVars, i, training, micro, params, warnings, drawn, opt_grads,
                   devVars, roundVars, genVars>>

\* if (i + 1) % args.valid_every == 0: dev_step("test_seen", i + 1)
StartRound ==
    /\ pc = "valid_check"
    /\ (i + 1) % valid_every = 0
    /\ split' = "test_seen"
    /\ global_step' = i + 1
    /\ pc' = "dev_enter"
    /\ UNCHANGED <<argVars, trainVars, n_token, test_loss, count, batch_pos,
                   dev_result, decoded_files, error, roundVars, genVars>>

\* No evaluation after this step: the next iteration.
NextIteration ==
    /\ pc = "valid_check"
    /\ (i + 1) % valid_every /= 0
    /\ i' = i + 1
    /\ pc' = "loop"
    /\ UNCHANGED <<argVars, training, micro, grads, grad_norm, params, warnings,
                   drawn, opt_grads, devVars, roundVars, genVars>>

(***************************************************************************)
(* dev_step(split, global_step)                                            *)
(***************************************************************************)
\* A variant that treats every other split name as test_unseen.
DevEnterAnySplit ==
    /\ pc = "dev_enter"
    /\ training' = FALSE
    /\ n_token' = 0
    /\ test_loss' = 0
    /\ count' = 0
    /\ batch_pos' = 0
    /\ dev_result' = None
    /\ pc' = "dev_loop"
    /\ UNCHANGED <<argVars, i, micro, grads, grad_norm, params, warnings, drawn,
                   opt_grads, split, global_step, decoded_files, error, roundVars,
                   genVars>>

\* The split selects a loader; gen_model.eval(); the locals are initialised.
DevEnter ==
    /\ pc = "dev_enter"
    /\ split \in ValidSplits
    /\ training' = FALSE
    /\ n_token' = 0
    /\ test_loss' = 0
    /\ count' = 0
    /\ batch_pos' = 0
    /\ dev_result' = None
    /\ pc' = "dev_loop"
    /\ UNCHANGED <<argVars, i, micro, grads, grad_norm, params, warnings, drawn,
                   opt_grads, split, global_step, decoded_files, error, roundVars,
                   genVars>>

\* else: raise ValueError
DevRaiseValueError ==
    /\ pc = "dev_enter"
    /\ split \notin ValidSplits
    /\ error' = "ValueError"
    /\ pc' = "crashed"
    /\ UNCHANGED <<argVars, trainVars, split, global_step, n_token, test_loss, count,
                   batch_pos, dev_result, decoded_files, roundVars, genVars>>

\* One batch of test_loader: its loss is accumulated and each of its
\* examples is decoded.
DevBatch ==
    /\ pc = "dev_loop"
    /\ batch_pos < TestLoader(split)
    /\ \E s \in LossSums : test_loss' = test_loss + s
    /\ n_token' = n_token + eval_batch_size
    /\ count' = count + eval_batch_size
    /\ batch_pos' = batch_pos + 1
    /\ UNCHANGED <<argVars, pc, trainVars, split, global_step, dev_result,
                   decoded_files, error, roundVars, genVars>>

\* The loader is exhausted: the decoded-output file is written.
DevWriteDecoded ==
    /\ pc = "dev_loop"
    /\ batch_pos >= TestLoader(split)
    /\ decoded_files' = decoded_files \cup {<<split, global_step>>}
    /\ pc' = "dev_mean"
    /\ UNCHANGED <<argVars, trainVars, split, global_step, n_token, test_loss, count,
                   batch_pos, dev_result, error, roundVars, genVars>>

\* MeanLoss = test_loss / n_token, the metrics, and the return.
DevReturn ==
    /\ pc = "dev_mean"
    /\ n_token /= 0
    /\ dev_result' = [loss |-> MeanLoss(test_loss, n_token)]
    /\ pc' = "dev_returned"
    /\ UNCHANGED <<argVars, trainVars, split, global_step, n_token, test_loss, count,
                   batch_pos, decoded_files, error, roundVars, genVars>>

\* MeanLoss = test_loss / n_token with n_token = 0: ZeroDivisionError.
DevZeroDivision ==
    /\ pc = "dev_mean"
    /\ n_token = 0
    /\ error' = "ZeroDivisionError"
    /\ pc' = "crashed"
    /\ UNCHANGED <<argVars, trainVars, split, global_step, n_token, test_loss, count,
                   batch_pos, dev_result, decoded_files, roundVars, genVars>>

(***************************************************************************)
(* The evaluation round of main.                                           *)
(***************************************************************************)
\* test_seen_results = <returned>; dev_step("test_unseen", i + 1)
AfterSeen ==
    /\ pc = "dev_returned"
    /\ split = "test_seen"
    /\ test_seen_results' = dev_result
    /\ seen_hist' = Append(seen_hist, [step |-> global_step, params |-> params,
                                       loss |-> dev_result.loss])
    /\ split' = "test_unseen"
    /\ global_step' = i + 1
    /\ pc' = "dev_enter"
    /\ UNCHANGED <<argVars, trainVars, n_token, test_loss, count, batch_pos,
                   dev_result, decoded_files, error, test_unseen_results, best_loss,
                   schedule, checkpoint, results_file, rounds, sched_hist, saves,
                   genVars>>

\* test_unseen_results = <returned>
AfterUnseen ==
    /\ pc = "dev_returned"
    /\ split = "test_unseen"
    /\ test_unseen_results' = dev_result
    /\ pc' = "sched"
    /\ UNCHANGED <<argVars, trainVars, devVars, test_seen_results, best_loss,
                   schedule, checkpoint, results_file, seen_hist, rounds, sched_hist,
                   saves, genVars>>

\* A variant that monitors the other split.
ScheduleMetricUnseen == test_unseen_results.loss

\* The metric main hands to gen_schedule.step.
ScheduleMetric == test_seen_results.loss

\* gen_schedule.step(test_seen_results['loss'])
SchedulerStep ==
    /\ pc = "sched"
    /\ schedule' = ScheduleStep(schedule, ScheduleMetric)
    /\ sched_hist' = Append(sched_hist, ScheduleMetric)
    /\ pc' = "compare"
    /\ UNCHANGED <<argVars, trainVars, devVars, test_seen_results,
                   test_unseen_results, best_loss, checkpoint, results_file,
                   seen_hist, rounds, saves, genVars>>

\* A variant of the improved branch that forgets to record the new best loss.
SaveCheckpointKeepBest ==
    /\ pc = "compare"
    /\ Improved(test_seen_results.loss, best_loss)
    /\ checkpoint' = [state_dict |-> params]
    /\ results_file' = [step |-> i + 1,
                        seen |-> test_seen_results.loss,
                        unseen |-> test_unseen_results.loss]
    /\ saves' = saves + 1
    /\ rounds' = rounds + 1
    /\ i' = i + 1
    /\ pc' = "loop"
    /\ UNCHANGED <<argVars, training, micro, grads, grad_norm, params, warnings,
                   drawn, opt_grads, devVars, test_seen_results,
                   test_unseen_results, best_loss, schedule, seen_hist, sched_hist,
                   genVars>>

\* The branch taken when the loss improved: best_loss, torch.save and the
\* results file; then the next iteration.
SaveCheckpoint ==
    /\ pc = "compare"
    /\ Improved(test_seen_results.loss, best_loss)
    /\ best_loss' = test_seen_results.loss
    /\ checkpoint' = [state_dict |-> params]
    /\ results_file' = [step |-> i + 1,
                        seen |-> test_seen_results.loss,
                        unseen |-> test_unseen_results.loss]
    /\ saves' = saves + 1
    /\ rounds' = rounds + 1
    /\ i' = i + 1
    /\ pc' = "loop"
    /\ UNCHANGED <<argVars, training, micro, grads, grad_norm, params, warnings,
                   drawn, opt_grads, devVars, test_seen_results,
                   test_unseen_results, schedule, seen_hist, sched_hist, genVars>>

\* The loss did not improve: nothing is written; the next iteration.
NoImprovement ==
    /\ pc = "compare"
    /\ ~Improved(test_seen_results.loss, best_loss)
    /\ rounds' = rounds + 1
    /\ i' = i + 1
    /\ pc' = "loop"
    /\ UNCHANGED <<argVars, training, micro, grads, grad_norm, params, warnings,
                   drawn, opt_grads, devVars, test_seen_results,
                   test_unseen_results, best_loss, schedule, checkpoint,
                   results_file, seen_hist, sched_hist, saves, genVars>>

(***************************************************************************)
(* Generation: prepare_inputs_for_generation inside self.generate.         *)
(***************************************************************************)
GenStart ==
    /\ input_ids = <<>>
    /\ past = FALSE
    /\ segment = TRUE
    /\ token_type_ids = <<>>
    /\ inputs = NoInputs
    /\ gpc = "idle"

GenInit ==
    /\ input_ids \in (UNION {Batches(b, n) : b \in BatchSizes, n \in 0..MaxLen})
                        \cup {<<ExampleIds>>}
    /\ past = FALSE
    /\ segment \in BOOLEAN
    /\ token_type_ids = <<>>
    /\ inputs = NoInputs
    /\ gpc = "call"
    /\ MainStart(0, 1, 1, 0, 0)

\* A variant that cuts input_ids to its last column before the scan, so the
\* label is computed from the last token alone.
PrepareInputsTruncateFirst ==
    /\ gpc = "call"
    /\ LET ids   == IF past THEN LastColumn(input_ids) ELSE input_ids
           types == BuildTokenTypeIds(ids)
       IN /\ token_type_ids' = types
          /\ inputs' = MakeInputs(ids, types, segment)
    /\ gpc' = "returned"
    /\ UNCHANGED <<input_ids, past, segment, mainVars>>

\* prepare_inputs_for_generation(input_ids, **kwargs)
PrepareInputs ==
    /\ gpc = "call"
    /\ LET built == BuildTokenTypeIds(input_ids)
           ids   == IF past THEN LastColumn(input_ids) ELSE input_ids
           types == IF past THEN LastColumn(built) ELSE built
       IN /\ token_type_ids' = types
          /\ inputs' = MakeInputs(ids, types, segment)
    /\ gpc' = "returned"
    /\ UNCHANGED <<input_ids, past, segment, mainVars>>

\* One step of self.generate: every row grows by one token and the method is
\* called again, with or without a cached past.
GenerateToken ==
    /\ gpc = "returned"
    /\ \A r \in DOMAIN input_ids : Len(input_ids[r]) < MaxLen
    /\ \E next_tokens \in [DOMAIN input_ids -> Vocab] :
          input_ids' = [r \in DOMAIN input_ids |-> Append(input_ids[r], next_tokens[r])]
    /\ past' \in BOOLEAN
    /\ token_type_ids' = <<>>
    /\ inputs' = NoInputs
    /\ gpc' = "call"
    /\ UNCHANGED <<segment, mainVars>>

(***************************************************************************)
(* Specifications.                                                         *)
(***************************************************************************)
\* main: the training loop with its evaluation rounds.
Init == MainInit /\ GenStart

Next ==
    \/ TrainStepEnter
    \/ LoopExit
    \/ MicroBatch
    \/ ClipGradNorm
    \/ OptimizerStep
    \/ ZeroGrad
    \/ StartRound
    \/ NextIteration
    \/ DevEnter
    \/ DevBatch
    \/ DevWriteDecoded
    \/ DevReturn
    \/ DevZeroDivision
    \/ AfterSeen
    \/ AfterUnseen
    \/ SchedulerStep
    \/ SaveCheckpoint
    \/ NoImprovement

Spec == Init /\ [][Next]_vars

\* prepare_inputs_for_generation over bounded batches.
GenNext == PrepareInputs \/ GenerateToken

SpecGen == GenInit /\ [][GenNext]_vars

\* dev_step called with any split name.
SplitNames == ValidSplits \cup {"valid"}

DevInit ==
    /\ GenStart
    /\ \E sl \in 0..MaxEvalBatches, ul \in 0..MaxEvalBatches :
          /\ num_steps = MaxSteps
          /\ valid_every \in 1..MaxValidEvery
          /\ accum_steps = 1
          /\ test_seen_loader = sl
          /\ test_unseen_loader = ul
    /\ pc = "dev_enter"
    /\ split \in SplitNames
    /\ global_step \in 1..MaxSteps
    /\ i = global_step - 1
    /\ training = TRUE
    /\ micro = 1
    /\ grads = 0
    /\ grad_norm = 0
    /\ params = global_step
    /\ warnings = 0
    /\ n_token = 0
    /\ test_loss = 0
    /\ count = 0
    /\ batch_pos = 0
    /\ dev_result = None
    /\ decoded_files = {}
    /\ error = "none"
    /\ test_seen_results = None
    /\ test_unseen_results = None
    /\ best_loss = InitialBestLoss
    /\ schedule = InitialSchedule
    /\ checkpoint = None
    /\ results_file = None
    /\ drawn = global_step
    /\ opt_grads = [k \in 1..global_step |-> 1]
    /\ seen_hist = <<>>
    /\ rounds = 0
    /\ sched_hist = <<>>
    /\ saves = 0

DevNext ==
    \/ DevEnter
    \/ DevRaiseValueError
    \/ DevBatch
    \/ DevWriteDecoded
    \/ DevReturn
    \/ DevZeroDivision

SpecDev == DevInit /\ [][DevNext]_vars

(***************************************************************************)
(* Properties of prepare_inputs_for_generation (under SpecGen).            *)
(***************************************************************************)
SpecialTokenSet == {know_id, user_id[1], user_id[2]}

\* C1: without a cached past, the token_type_ids row built for each input
\* row has that row's length, and each of its labels is the knowledge
\* marker or one of the two user markers -- also for a row that holds no
\* special token.
C1_LabelsSameLengthAndSpecial ==
    (gpc = "returned" /\ ~past) =>
        /\ DOMAIN token_type_ids = DOMAIN input_ids
        /\ \A r \in DOMAIN input_ids :
              /\ Len(token_type_ids[r]) = Len(input_ids[r])
              /\ \A j \in 1..Len(token_type_ids[r]) :
                    token_type_ids[r][j] \in SpecialTokenSet

\* A two-row batch was tagged, one of its rows without any special token.
C1_Witness ==
    /\ gpc = "returned"
    /\ ~past
    /\ Len(input_ids) = 2
    /\ \E r \in DOMAIN input_ids :
          /\ Len(input_ids[r]) = MaxLen
          /\ \A j \in 1..Len(input_ids[r]) : input_ids[r][j] \notin SpecialTokenSet
          /\ Len(token_type_ids[r]) = MaxLen

\* The token at the greatest index k <= j holding a special token, or the
\* knowledge marker when there is none.
NearestSpecial(ids, j) ==
    LET S == {k \in 1..j : ids[k] \in SpecialTokenSet}
    IN IF S = {} THEN know_id
       ELSE ids[CHOOSE k \in S : \A m \in S : m <= k]

\* C2: the label at every position j is the token at the greatest index
\* i <= j that holds a special token (so a special token labels its own
\* position), or the knowledge marker when no such index exists; the tokens
\* [K, t1, U1, t2, U2, t3] are labelled [K, K, U1, U1, U2, U2].
C2_NearestPrecedingSpecial ==
    (gpc = "returned" /\ ~past) =>
        /\ \A r \in DOMAIN input_ids :
              /\ Len(token_type_ids[r]) = Len(input_ids[r])
              /\ \A j \in 1..Len(input_ids[r]) :
                    token_type_ids[r][j] = NearestSpecial(input_ids[r], j)
        /\ (input_ids = <<ExampleIds>>) =>
              token_type_ids = << <<know_id, know_id, user_id[1], user_id[1],
                                   user_id[2], user_id[2]>> >>

\* The documented example was tagged.
C2_Witness ==
    /\ gpc = "returned"
    /\ ~past
    /\ input_ids = <<ExampleIds>>
    /\ Len(token_type_ids[1]) = Len(ExampleIds)


RoundPcs == {"dev_enter", "dev_loop", "dev_mean", "dev_returned", "sched", "compare"}

\* The losses of the rounds decided so far, with best_loss's initial value.
LossesAfter(n) == {InitialBestLoss} \cup {seen_hist[k].loss : k \in 1..n}

LossMin(S) == CHOOSE a \in S : \A b \in S : ~Less(b, a)

\* C3: the checkpoint and the results file are written in a round only when
\* that round's test_seen loss is strictly below best_loss; a round whose
\* loss ties or is worse leaves best_loss, the checkpoint and the results
\* file as they were.
C3_SaveOnlyOnStrictDecrease ==
    [][ /\ (saves' /= saves) =>
              /\ pc = "compare"
              /\ test_seen_results.loss = seen_hist[Len(seen_hist)].loss
              /\ Less(test_seen_results.loss, best_loss)
        /\ (pc = "compare" /\ ~Less(test_seen_results.loss, best_loss)) =>
              UNCHANGED <<best_loss, checkpoint, results_file, saves>>
        /\ (saves' = saves) => UNCHANGED <<best_loss, checkpoint, results_file>>
      ]_vars

\* Two rounds were decided: the first saved, the second tied and wrote nothing.
C3_Witness ==
    /\ pc = "loop"
    /\ rounds = 2
    /\ seen_hist[1].loss = seen_hist[2].loss
    /\ saves = 1
    /\ checkpoint = [state_dict |-> seen_hist[1].params]

\* C4: when dev_step ends its evaluation with n_token = 0, the mean loss is
\* 0 and no division error is raised.
C4_ZeroTokenCountGuarded ==
    (pc \in {"dev_returned", "crashed"} /\ n_token = 0) =>
        /\ error = "none"
        /\ dev_result = [loss |-> <<0, 1>>]

\* C5: exactly num_steps training steps are executed and then the loop
\* terminates; an evaluation round runs right after training step k exactly
\* when k is a multiple of valid_every, and the checkpoint decision is taken
\* only inside such a round, after both evaluations.
C5_StepBudgetAndRounds ==
    /\ (pc \in {"done", "crashed"}) =>
          /\ pc = "done"
          /\ i = num_steps
          /\ Len(opt_grads) = num_steps
    /\ (pc \in RoundPcs) => (i + 1) % valid_every = 0
    /\ (pc = "loop") => Len(seen_hist) = i \div valid_every
    /\ (pc = "compare") =>
          /\ test_seen_results.loss = seen_hist[Len(seen_hist)].loss
          /\ <<"test_seen", i + 1>> \in decoded_files
          /\ <<"test_unseen", i + 1>> \in decoded_files

\* C6: in every training step exactly accum_steps micro-batches are drawn and
\* their backward passes accumulated before the one optimizer step of that
\* training step; the gradients are zeroed after it, so none carries over.
C6_AccumulateThenOneOptimizerStep ==
    /\ \A k \in DOMAIN opt_grads : opt_grads[k] = accum_steps
    /\ (pc = "accum") => (grads = micro /\ micro <= accum_steps /\ Len(opt_grads) = i)
    /\ (pc = "opt_step") =>
          (grads = accum_steps /\ micro = accum_steps /\ Len(opt_grads) = i)
    /\ (pc = "zero_grad") => Len(opt_grads) = i + 1
    /\ (pc \in {"loop", "done"}) =>
          (grads = 0 /\ Len(opt_grads) = i /\ drawn = accum_steps * i)
    /\ (pc \in RoundPcs \cup {"valid_check", "crashed"}) =>
          (grads = 0 /\ Len(opt_grads) = i + 1 /\ drawn = accum_steps * (i + 1))
    /\ params = Len(opt_grads)

\* Two training steps of two micro-batches each are over.
C6_Witness ==
    /\ pc = "loop"
    /\ i = 2
    /\ accum_steps = 2
    /\ drawn = 4
    /\ opt_grads = <<2, 2>>

\* C7: dev_step called with a split other than 'test_seen' or 'test_unseen'
\* ends at once with ValueError: the model is not put in evaluation mode, no
\* batch is evaluated or decoded, no decoded-output file is written and
\* nothing is returned.
C7_InvalidSplitAborts ==
    (split \notin ValidSplits) =>
        /\ pc \in {"dev_enter", "crashed"}
        /\ (pc = "crashed") => error = "ValueError"
        /\ (pc = "dev_enter") => error = "none"
        /\ training = TRUE
        /\ batch_pos = 0
        /\ n_token = 0
        /\ count = 0
        /\ decoded_files = {}
        /\ dev_result = None

\* dev_step was called with the split 'valid' and has raised.
C7_Witness ==
    /\ split = "valid"
    /\ pc = "crashed"
    /\ error = "ValueError"

\* C8: a gradient norm of 100 or more only adds a warning: the optimizer
\* step and the gradient reset of that training step follow, the parameters
\* are never rolled back, and training goes on.
C8_ExplodingNormOnlyWarns ==
    /\ [][(warnings' /= warnings) =>
              /\ warnings' = warnings + 1
              /\ Exploding(grad_norm')
              /\ pc' = "opt_step"
              /\ error' = "none"
              /\ UNCHANGED <<params, grads, i>>]_vars
    /\ [][(pc = "opt_step") =>
              (pc' = "zero_grad" /\ params' = params + 1 /\ error' = "none")]_vars
    /\ [][(pc = "zero_grad") =>
              (pc' = "valid_check" /\ grads' = 0 /\ params' = params
                 /\ error' = "none")]_vars
    /\ [][params' >= params]_vars
    /\ [](pc = "loop" => params = i)

\* Every training step so far warned, and a further training step is running.
C8_Witness ==
    /\ pc = "accum"
    /\ i >= 1
    /\ warnings = i
    /\ params = i
    /\ micro >= 1

\* The schedule after the first n rounds' test_seen losses.
RECURSIVE PlateauAfter(_)
PlateauAfter(n) ==
    IF n = 0 THEN InitialSchedule
    ELSE ScheduleStep(PlateauAfter(n - 1), seen_hist[n].loss)

\* The rounds among the first n whose test_seen loss was a strict improvement.
StrictImprovements(n) ==
    {k \in 1..n : Less(seen_hist[k].loss, LossMin(LossesAfter(k - 1)))}

\* C9: gen_schedule is stepped exactly once per evaluation round, with that
\* round's test_seen loss, never with the test_unseen loss and never between
\* rounds; the learning rate and the number of checkpoints saved are
\* functions of the test_seen losses alone.
C9_ScheduleDrivenBySeenLoss ==
    /\ Len(sched_hist) = rounds + (IF pc = "compare" THEN 1 ELSE 0)
    /\ Len(sched_hist) <= Len(seen_hist)
    /\ \A k \in DOMAIN sched_hist : sched_hist[k] = seen_hist[k].loss
    /\ (pc \notin RoundPcs \cup {"crashed"}) =>
          (Len(seen_hist) = rounds /\ rounds = i \div valid_every)
    /\ schedule = PlateauAfter(Len(sched_hist))
    /\ saves = Cardinality(StrictImprovements(rounds))

\* Two rounds were decided with test_unseen losses unlike the test_seen ones,
\* and the learning rate has decayed.
C9_Witness ==
    /\ pc = "loop"
    /\ rounds = 2
    /\ Len(sched_hist) = 2
    /\ test_unseen_results.loss /= test_seen_results.loss
    /\ schedule.decays = 1
    /\ saves = 1

\* The earliest of the first n rounds whose loss is the least of them.
EarliestBest(n) ==
    CHOOSE k \in 1..n :
        /\ seen_hist[k].loss = LossMin(LossesAfter(n))
        /\ \A m \in 1..(k - 1) : seen_hist[m].loss /= seen_hist[k].loss

\* C10: best_loss is the least of 99999.9 and the test_seen losses of the
\* rounds decided so far, and never increases; a checkpoint exists only once
\* a loss was below 99999.9, and then it holds the parameters of the earliest
\* round that attained best_loss, whose step the results file records.
C10_BestLossIsRunningMinimum ==
    /\ [](/\ best_loss = LossMin(LossesAfter(rounds))
          /\ IF \A k \in 1..rounds : ~Less(seen_hist[k].loss, InitialBestLoss)
             THEN checkpoint = None /\ results_file = None /\ saves = 0
             ELSE /\ checkpoint = [state_dict |-> seen_hist[EarliestBest(rounds)].params]
                  /\ results_file.step = seen_hist[EarliestBest(rounds)].step
                  /\ results_file.seen = best_loss)
    /\ [][~Less(best_loss, best_loss')]_vars

\* A first round at 100000 saved nothing; the second round's lower loss did.
C10_Witness ==
    /\ pc = "loop"
    /\ rounds = 2
    /\ ~Less(seen_hist[1].loss, InitialBestLoss)
    /\ checkpoint = [state_dict |-> seen_hist[2].params]
    /\ results_file.step = seen_hist[2].step
    /\ best_loss = seen_hist[2].loss

====
